---- MODULE Spec2Model ----
(***************************************************************************)
(* mqtt2influx.py: an MQTT client which saves received messages in an      *)
(* InfluxDB instance.                                                      *)
(*                                                                         *)
(* The module models the process of src/mqtt2influx.py from its start to   *)
(* its exit: the two initialisation steps of Mqtt2InfluxDb.__init__, the   *)
(* receive loop with its two callbacks, and the handling of                *)
(* KeyboardInterrupt in __main__.  Payloads are sequences of bytes, and    *)
(* bytes.decode, json.loads, int(), float() and datetime.fromtimestamp are *)
(* operators computed on them.                                             *)
(*                                                                         *)
(* Conventions.  A text is a sequence of code points (integers), a payload *)
(* a sequence of bytes (0..255).  A Python object is a record with a field *)
(* kind; an int is a sign and a sequence of decimal digits (Python ints    *)
(* are unbounded), a float is a sign, a decimal mantissa and an exponent   *)
(* of ten (rounding to 53 bits is not modelled), or inf or nan.  An        *)
(* operator that can raise returns [exc, val], exc = "none" when it        *)
(* returned normally.  A callback runs as one step: the loop is single     *)
(* threaded (src/mqtt2influx.py:40), and KeyboardInterrupt is modelled as  *)
(* arriving while the loop waits for the next packet.                      *)
(***************************************************************************)
EXTENDS Integers, Sequences, FiniteSets, TLC

\* ------------------------------------------------------------------ text

\* the printable ASCII characters 32..126 (the backquote, 96, is shown as ?
\* and excluded below: the string syntax has no way to write it)
Printable == " !\"#$%&'()*+,-./0123456789:;<=>?@ABCDEFGHIJKLMNOPQRSTUVWXYZ[\\]^_?abcdefghijklmnopqrstuvwxyz{|}~"

Chr(n) ==
    IF n \in 32..126 /\ n # 96 THEN SubSeq(Printable, n - 31, n - 31)
    ELSE IF n = 9 THEN "\t"
    ELSE IF n = 10 THEN "\n"
    ELSE IF n = 13 THEN "\r"
    ELSE ""

Ord(c) == CHOOSE n \in ((32..126) \ {96}) \cup {9, 10, 13} : Chr(n) = c

\* the code points (and the UTF-8 bytes) of an ASCII literal
Text(str) == [i \in 1..Len(str) |-> Ord(SubSeq(str, i, i))]

Ascii == [n \in 0..127 |-> Chr(n)]

\* the character of text s at index i, "" past the end or outside ASCII
Ch(s, i) == IF i \in 1..Len(s) /\ s[i] < 128 THEN Ascii[s[i]] ELSE ""

IsDigit(s, i) == i \in 1..Len(s) /\ s[i] \in 48..57

Lower(c) == IF c \in 65..90 THEN c + 32 ELSE c

LowerText(s) == [i \in 1..Len(s) |-> Lower(s[i])]

\* ------------------------------------------------------- Python objects

PyNone == [kind |-> "None"]

PyBool(b) == [kind |-> "bool", b |-> b]

PyStr(s) == [kind |-> "str", s |-> s]

PyList(items) == [kind |-> "list", items |-> items]

\* items: a sequence of [k |-> text, v |-> object]; a later item of the same
\* key replaces an earlier one (see DictFind)
PyDict(items) == [kind |-> "dict", items |-> items]

RECURSIVE StripLeadingZeros(_)
StripLeadingZeros(d) ==
    IF d = <<>> THEN <<0>>
    ELSE IF Len(d) > 1 /\ d[1] = 0 THEN StripLeadingZeros(Tail(d))
    ELSE d

RECURSIVE StripTrailingZeros(_)
StripTrailingZeros(d) ==
    IF Len(d) > 1 /\ d[Len(d)] = 0 THEN StripTrailingZeros(SubSeq(d, 1, Len(d) - 1))
    ELSE d

IntOf(neg, d) == [kind |-> "int", neg |-> neg /\ d # <<0>>, digits |-> d]

\* the int (-1)^neg * digits
PyInt(neg, digits) == IntOf(neg, StripLeadingZeros(digits))

PyInf(neg) == [kind |-> "float", cls |-> "inf", neg |-> neg, digits |-> <<>>, exp |-> 0]

PyNan == [kind |-> "float", cls |-> "nan", neg |-> FALSE, digits |-> <<>>, exp |-> 0]

PyZero(neg) == [kind |-> "float", cls |-> "finite", neg |-> neg, digits |-> <<0>>, exp |-> 0]

\* d: the mantissa without its zeros at either end, e: its exponent
FloatOf(neg, d, e) ==
    IF d = <<0>> THEN PyZero(neg)
    ELSE IF Len(d) + e > 309 THEN PyInf(neg)
    ELSE IF Len(d) + e < -323 THEN PyZero(neg)
    ELSE [kind |-> "float", cls |-> "finite", neg |-> neg, digits |-> d, exp |-> e]

FloatOfStripped(neg, d0, d, exp) == FloatOf(neg, d, exp + (Len(d0) - Len(d)))

FloatOfDigits(neg, d0, exp) == FloatOfStripped(neg, d0, StripTrailingZeros(d0), exp)

\* the float (-1)^neg * digits * 10^exp, normalised; a magnitude of 10^309 or
\* more is inf and one below 10^-324 is zero (the doubles end at 1.8e308 and
\* 4.9e-324; the values between those and the powers of ten are not told apart)
PyFloat(neg, digits, exp) == FloatOfDigits(neg, StripLeadingZeros(digits), exp)

Returned(v) == [exc |-> "none", val |-> v]

Raised(e) == [exc |-> e, val |-> PyNone]

\* --------------------------------------------------- int() and float()

\* str.strip(): the whitespace int() and float() ignore at both ends
PyWhitespace == {9, 10, 11, 12, 13, 28, 29, 30, 31, 32, 133, 160}

RECURSIVE LStrip(_)
LStrip(s) == IF s # <<>> /\ s[1] \in PyWhitespace THEN LStrip(Tail(s)) ELSE s

RECURSIVE RStrip(_)
RStrip(s) ==
    IF s # <<>> /\ s[Len(s)] \in PyWhitespace THEN RStrip(SubSeq(s, 1, Len(s) - 1)) ELSE s

Strip(s) == RStrip(LStrip(s))

\* the end (exclusive) of the run of digits and underscores of s that starts at i
RECURSIVE DigitRunEnd(_, _)
DigitRunEnd(s, i) ==
    IF IsDigit(s, i) \/ Ch(s, i) = "_" THEN DigitRunEnd(s, i + 1) ELSE i

\* a run s[i..j-1] of digits is well formed when it is not empty and its
\* underscores stand singly between digits
RunOk(s, i, j) ==
    /\ i < j
    /\ IsDigit(s, i)
    /\ IsDigit(s, j - 1)
    /\ \A k \in i..(j - 2) : Ch(s, k) = "_" => Ch(s, k + 1) # "_"

RECURSIVE RunDigits(_, _, _)
RunDigits(s, i, j) ==
    IF i >= j THEN <<>>
    ELSE IF IsDigit(s, i) THEN <<s[i] - 48>> \o RunDigits(s, i + 1, j)
    ELSE RunDigits(s, i + 1, j)

HasSign(s, i) == Ch(s, i) \in {"+", "-"}

\* the index after the sign that may stand at i
AfterSign(s, i) == IF HasSign(s, i) THEN i + 1 ELSE i

\* the value of a run of exponent digits, capped where it no longer matters
\* (any exponent beyond 99999 gives inf or zero)
RECURSIVE DigitsValue(_)
DigitsValue(d) ==
    IF d = <<>> THEN 0 ELSE DigitsValue(SubSeq(d, 1, Len(d) - 1)) * 10 + d[Len(d)]

ExpOf(n) == IF Len(n) > 5 THEN 99999 ELSE DigitsValue(n)

ExpValue(d) == ExpOf(StripLeadingZeros(d))

\* s: the stripped text, e: the end of its run of digits
IntFromRun(s, e) ==
    IF RunOk(s, AfterSign(s, 1), e) /\ e = Len(s) + 1
    THEN Returned(PyInt(Ch(s, 1) = "-", RunDigits(s, AfterSign(s, 1), e)))
    ELSE Raised("ValueError")

IntFromStripped(s) == IntFromRun(s, DigitRunEnd(s, AfterSign(s, 1)))

\* int(str): blanks, a sign, digits with single underscores between them
IntFromText(text) == IntFromStripped(Strip(text))

InfWords == {Text("inf"), Text("infinity")}

NanWord == Text("nan")

\* s: the stripped text; p, intEnd, fracEnd, expAt, expEnd: where its digits
\* start, where the digits before the point end, where those after it end, and
\* where the digits of the exponent start and end
FloatFromParts(s, p, intEnd, fracEnd, expAt, expEnd) ==
    LET hasInt == p < intEnd
        hasFrac == intEnd + 1 < fracEnd
        hasExp == fracEnd < expEnd
        sign == IF Ch(s, fracEnd + 1) = "-" THEN -1 ELSE 1
        ok == /\ hasInt \/ hasFrac
              /\ hasInt => RunOk(s, p, intEnd)
              /\ hasFrac => RunOk(s, intEnd + 1, fracEnd)
              /\ Ch(s, fracEnd) \in {"e", "E"} => RunOk(s, expAt, expEnd)
              /\ expEnd = Len(s) + 1
    IN  IF ok
        THEN Returned(PyFloat(Ch(s, 1) = "-",
                              RunDigits(s, p, fracEnd),
                              (IF hasExp THEN sign * ExpValue(RunDigits(s, expAt, expEnd)) ELSE 0)
                              - Len(RunDigits(s, intEnd + 1, fracEnd))))
        ELSE Raised("ValueError")

FloatFromFrac(s, p, intEnd, fracEnd) ==
    FloatFromParts(s, p, intEnd, fracEnd, AfterSign(s, fracEnd + 1),
                   IF Ch(s, fracEnd) \in {"e", "E"}
                   THEN DigitRunEnd(s, AfterSign(s, fracEnd + 1)) ELSE fracEnd)

FloatFromInt(s, p, intEnd) ==
    FloatFromFrac(s, p, intEnd,
                  IF Ch(s, intEnd) = "." THEN DigitRunEnd(s, intEnd + 1) ELSE intEnd)

FloatFromWord(s, word) ==
    IF word \in InfWords THEN Returned(PyInf(Ch(s, 1) = "-"))
    ELSE IF word = NanWord THEN Returned(PyNan)
    ELSE FloatFromInt(s, AfterSign(s, 1), DigitRunEnd(s, AfterSign(s, 1)))

FloatFromStripped(s) == FloatFromWord(s, LowerText(SubSeq(s, AfterSign(s, 1), Len(s))))

\* float(str): blanks, a sign, then inf, infinity or nan in any case, or digits
\* with a point and an exponent, the digits with single underscores between them
FloatFromText(text) == FloatFromStripped(Strip(text))

RECURSIVE Zeros(_)
Zeros(n) == IF n <= 0 THEN <<>> ELSE <<0>> \o Zeros(n - 1)

\* int(x), as line 88 applies it to payload['timestamp']
int(x) ==
    CASE x.kind = "int" -> Returned(x)
      [] x.kind = "bool" -> Returned(PyInt(FALSE, IF x.b THEN <<1>> ELSE <<0>>))
      [] x.kind = "float" ->
            IF x.cls = "nan" THEN Raised("ValueError")
            ELSE IF x.cls = "inf" THEN Raised("OverflowError")
            ELSE IF x.exp >= 0 THEN Returned(PyInt(x.neg, x.digits \o Zeros(x.exp)))
            ELSE Returned(PyInt(x.neg, SubSeq(x.digits, 1, Len(x.digits) + x.exp)))
      [] x.kind = "str" -> IntFromText(x.s)
      [] OTHER -> Raised("TypeError")

\* float(x), as line 92 applies it to payload['value']
float(x) ==
    CASE x.kind = "float" -> Returned(x)
      [] x.kind = "int" ->
            IF Len(x.digits) > 309 THEN Raised("OverflowError")
            ELSE Returned(PyFloat(x.neg, x.digits, 0))
      [] x.kind = "bool" -> Returned(PyFloat(FALSE, IF x.b THEN <<1>> ELSE <<0>>, 0))
      [] x.kind = "str" -> FloatFromText(x.s)
      [] OTHER -> Raised("TypeError")

\* ------------------------------------------------- bytes.decode('utf-8')

\* the number of continuation bytes the lead byte b0 announces, -1 for a byte
\* that cannot start a character
Utf8Following(b0) ==
    IF b0 < 128 THEN 0
    ELSE IF b0 \in 194..223 THEN 1
    ELSE IF b0 \in 224..239 THEN 2
    ELSE IF b0 \in 240..244 THEN 3
    ELSE -1

\* the range of the first continuation byte after the lead byte b0 (overlong
\* forms, surrogates and code points past U+10FFFF are not UTF-8)
Utf8Second(b0) ==
    IF b0 = 224 THEN 160..191
    ELSE IF b0 = 237 THEN 128..159
    ELSE IF b0 = 240 THEN 144..191
    ELSE IF b0 = 244 THEN 128..143
    ELSE 128..191

Utf8CodePoint(b, i, n) ==
    IF n = 0 THEN b[i]
    ELSE IF n = 1 THEN (b[i] - 192) * 64 + (b[i + 1] - 128)
    ELSE IF n = 2 THEN (b[i] - 224) * 4096 + (b[i + 1] - 128) * 64 + (b[i + 2] - 128)
    ELSE (b[i] - 240) * 262144 + (b[i + 1] - 128) * 4096 + (b[i + 2] - 128) * 64
         + (b[i + 3] - 128)

RECURSIVE DecodeFrom(_, _, _)
DecodeFrom(b, i, acc) ==
    IF i > Len(b) THEN [exc |-> "none", text |-> acc]
    ELSE LET n == Utf8Following(b[i])
             ok == /\ n >= 0
                   /\ i + n <= Len(b)
                   /\ \A k \in 1..n : b[i + k] \in (IF k = 1 THEN Utf8Second(b[i]) ELSE 128..191)
         IN  IF ok THEN DecodeFrom(b, i + n + 1, Append(acc, Utf8CodePoint(b, i, n)))
             ELSE [exc |-> "UnicodeDecodeError", text |-> <<>>]

\* payload.decode('utf-8'): the text of the bytes, or UnicodeDecodeError
decode(payload) == DecodeFrom(payload, 1, <<>>)

\* ------------------------------------------------------------ json.loads

JsonWhitespace == {" ", "\t", "\n", "\r"}

RECURSIVE SkipWs(_, _)
SkipWs(s, i) == IF Ch(s, i) \in JsonWhitespace THEN SkipWs(s, i + 1) ELSE i

RECURSIVE DigitsEnd(_, _)
DigitsEnd(s, i) == IF IsDigit(s, i) THEN DigitsEnd(s, i + 1) ELSE i

\* a scan result: the object and the index after it, or the error
Scanned(v, end) == [exc |-> "none", val |-> v, end |-> end]

ScanError == [exc |-> "JSONDecodeError", val |-> PyNone, end |-> 0]

HexDigits == "0123456789abcdef"

IsHex(s, i) == \E k \in 1..16 : Ch(LowerText(s), i) = SubSeq(HexDigits, k, k)

HexValue(c) == (CHOOSE k \in 1..16 : Ascii[Lower(c)] = SubSeq(HexDigits, k, k)) - 1

Hex4(s, i) ==
    HexValue(s[i]) * 4096 + HexValue(s[i + 1]) * 256 + HexValue(s[i + 2]) * 16 + HexValue(s[i + 3])

IsHex4(s, i) == \A k \in 0..3 : IsHex(s, i + k)

\* the character a one-letter escape stands for
Unescaped(c) ==
    CASE c = "b" -> 8
      [] c = "f" -> 12
      [] c = "n" -> 10
      [] c = "r" -> 13
      [] c = "t" -> 9
      [] OTHER -> Ord(c)

\* the string whose opening quote is just before i (strict: no control characters)
RECURSIVE ScanString(_, _, _)
ScanString(s, i, acc) ==
    IF i > Len(s) THEN ScanError
    ELSE IF Ch(s, i) = "\"" THEN Scanned(PyStr(acc), i + 1)
    ELSE IF s[i] < 32 THEN ScanError
    ELSE IF Ch(s, i) # "\\" THEN ScanString(s, i + 1, Append(acc, s[i]))
    ELSE IF Ch(s, i + 1) \in {"\"", "\\", "/", "b", "f", "n", "r", "t"}
    THEN ScanString(s, i + 2, Append(acc, Unescaped(Ch(s, i + 1))))
    ELSE IF Ch(s, i + 1) = "u" /\ IsHex4(s, i + 2)
    THEN LET hi == Hex4(s, i + 2)
             paired == /\ hi \in 55296..56319
                       /\ Ch(s, i + 6) = "\\" /\ Ch(s, i + 7) = "u" /\ IsHex4(s, i + 8)
                       /\ Hex4(s, i + 8) \in 56320..57343
         IN  IF paired
             THEN ScanString(s, i + 12,
                      Append(acc, 65536 + (hi - 55296) * 1024 + (Hex4(s, i + 8) - 56320)))
             ELSE ScanString(s, i + 6, Append(acc, hi))
    ELSE ScanError

\* the number at i: -?(0|[1-9]\d*)(\.\d+)?([eE][-+]?\d+)?, an int when it has
\* neither fraction nor exponent and a float otherwise.  p: where its digits
\* start; intEnd, fracEnd, expEnd: where the three parts end
NumberOf(s, i, p, intEnd, expEnd) ==
    IF ~IsDigit(s, p) THEN ScanError
    ELSE IF expEnd = intEnd
    THEN Scanned(IntFromText(SubSeq(s, i, intEnd - 1)).val, intEnd)
    ELSE Scanned(FloatFromText(SubSeq(s, i, expEnd - 1)).val, expEnd)

NumberFromFrac(s, i, p, intEnd, fracEnd) ==
    NumberOf(s, i, p, intEnd,
             IF Ch(s, fracEnd) \in {"e", "E"} /\ IsDigit(s, AfterSign(s, fracEnd + 1))
             THEN DigitsEnd(s, AfterSign(s, fracEnd + 1)) ELSE fracEnd)

NumberFromInt(s, i, p, intEnd) ==
    NumberFromFrac(s, i, p, intEnd,
                   IF Ch(s, intEnd) = "." /\ IsDigit(s, intEnd + 1)
                   THEN DigitsEnd(s, intEnd + 1) ELSE intEnd)

NumberFrom(s, i, p) ==
    NumberFromInt(s, i, p, IF Ch(s, p) = "0" THEN p + 1 ELSE DigitsEnd(s, p))

ScanNumber(s, i) == NumberFrom(s, i, IF Ch(s, i) = "-" THEN i + 1 ELSE i)

\* the literals of JSON, and the three that json.loads takes beyond it
Literals ==
    [null |-> Text("null"), true |-> Text("true"), false |-> Text("false"),
     NaN |-> Text("NaN"), Infinity |-> Text("Infinity"), MinusInfinity |-> Text("-Infinity")]

StartsWith(s, i, word) ==
    /\ i >= 1
    /\ i + Len(word) - 1 <= Len(s)
    /\ SubSeq(s, i, i + Len(word) - 1) = word

RECURSIVE scan_once(_, _)
RECURSIVE ScanItems(_, _, _)
RECURSIVE ScanMembers(_, _, _)

\* after an element of an array: j is at the "]" or the "," that must follow
ItemsNext(s, acc, j) ==
    IF Ch(s, j) = "]" THEN Scanned(PyList(acc), j + 1)
    ELSE IF Ch(s, j) = "," THEN ScanItems(s, SkipWs(s, j + 1), acc)
    ELSE ScanError

ItemScanned(s, acc, r) ==
    IF r.exc # "none" THEN ScanError
    ELSE ItemsNext(s, Append(acc, r.val), SkipWs(s, r.end))

\* the elements of an array from the element at i on
ScanItems(s, i, acc) == ItemScanned(s, acc, scan_once(s, i))

\* after a member of an object: j is at the "}" or the "," that must follow
MembersNext(s, acc, j) ==
    IF Ch(s, j) = "}" THEN Scanned(PyDict(acc), j + 1)
    ELSE IF Ch(s, j) = "," THEN ScanMembers(s, SkipWs(s, j + 1), acc)
    ELSE ScanError

MemberScanned(s, acc, k, r) ==
    IF r.exc # "none" THEN ScanError
    ELSE MembersNext(s, Append(acc, [k |-> k, v |-> r.val]), SkipWs(s, r.end))

MemberColon(s, acc, k, colon) ==
    IF Ch(s, colon) # ":" THEN ScanError
    ELSE MemberScanned(s, acc, k, scan_once(s, SkipWs(s, colon + 1)))

MemberKey(s, acc, key) ==
    IF key.exc # "none" THEN ScanError
    ELSE MemberColon(s, acc, key.val.s, SkipWs(s, key.end))

\* the members of an object from the opening quote of a key at i on
ScanMembers(s, i, acc) ==
    IF Ch(s, i) # "\"" THEN ScanError
    ELSE MemberKey(s, acc, ScanString(s, i + 1, <<>>))

\* j: the first index after the "{" that is not a blank
ObjectFrom(s, j) ==
    IF Ch(s, j) = "}" THEN Scanned(PyDict(<<>>), j + 1) ELSE ScanMembers(s, j, <<>>)

\* j: the first index after the "[" that is not a blank
ArrayFrom(s, j) ==
    IF Ch(s, j) = "]" THEN Scanned(PyList(<<>>), j + 1) ELSE ScanItems(s, j, <<>>)

\* the JSON value that starts at i
scan_once(s, i) ==
    CASE Ch(s, i) = "\"" -> ScanString(s, i + 1, <<>>)
      [] Ch(s, i) = "{" -> ObjectFrom(s, SkipWs(s, i + 1))
      [] Ch(s, i) = "[" -> ArrayFrom(s, SkipWs(s, i + 1))
      [] StartsWith(s, i, Literals.null) -> Scanned(PyNone, i + 4)
      [] StartsWith(s, i, Literals.true) -> Scanned(PyBool(TRUE), i + 4)
      [] StartsWith(s, i, Literals.false) -> Scanned(PyBool(FALSE), i + 5)
      [] StartsWith(s, i, Literals.NaN) -> Scanned(PyNan, i + 3)
      [] StartsWith(s, i, Literals.Infinity) -> Scanned(PyInf(FALSE), i + 8)
      [] StartsWith(s, i, Literals.MinusInfinity) -> Scanned(PyInf(TRUE), i + 9)
      [] OTHER -> ScanNumber(s, i)

Loaded(text, r) ==
    IF r.exc = "none" /\ SkipWs(text, r.end) = Len(text) + 1 THEN Returned(r.val)
    ELSE Raised("JSONDecodeError")

\* json.loads(text): the object, or JSONDecodeError (also for data after it)
json_loads(text) == Loaded(text, scan_once(text, SkipWs(text, 1)))

\* d[key] of a Python object: KeyError when a dict lacks the key; str, list
\* and the other objects take no str index or no index at all (TypeError)
RECURSIVE DictFind(_, _, _)
DictFind(items, key, i) ==
    IF i = 0 THEN Raised("KeyError")
    ELSE IF items[i].k = key THEN Returned(items[i].v)
    ELSE DictFind(items, key, i - 1)

GetItem(d, key) ==
    IF d.kind = "dict" THEN DictFind(d.items, key, Len(d.items)) ELSE Raised("TypeError")

\* the two keys of a payload
Keys == [timestamp |-> Text("timestamp"), value |-> Text("value")]

\* ------------------------------------------- datetime.fromtimestamp

\* the decimal digits of a literal
Digits(str) == [i \in 1..Len(str) |-> Ord(SubSeq(str, i, i)) - 48]

\* a <= b for two sequences of digits without leading zeros
RECURSIVE DigitsLeqFrom(_, _, _)
DigitsLeqFrom(a, b, i) ==
    IF i > Len(a) THEN TRUE
    ELSE IF a[i] # b[i] THEN a[i] < b[i]
    ELSE DigitsLeqFrom(a, b, i + 1)

DigitsLeq(a, b) == Len(a) < Len(b) \/ (Len(a) = Len(b) /\ DigitsLeqFrom(a, b, 1))

\* pytz.timezone('Europe/Berlin'), line 87
timezone == "Europe/Berlin"

\* the first second a datetime can hold, 0001-01-01T00:00:00Z; the last one,
\* 9999-12-31T23:59:59Z; and the last one an aware datetime of this zone can
\* hold, which is the zone's last offset (+01:00) earlier
EarliestEpoch == Digits("62135596800")

LatestUtcEpoch == Digits("253402300799")

LatestEpoch == Digits("253402297199")

\* datetime.datetime.fromtimestamp(timestamp, tz), line 89: the aware datetime
\* of the instant `timestamp` seconds after the epoch.  An instant outside the
\* years 1..9999 raises ValueError, one that the zone's offset carries past
\* the year 9999 or that time_t cannot hold raises OverflowError (the callers
\* do not tell the two apart; the edge of time_t is put at 18 digits)
\* fromtimestamp as it would be if it took the timestamp for milliseconds
fromtimestampMillis(timestamp, tz) ==
    Returned([kind |-> "datetime",
              epoch |-> PyInt(timestamp.neg,
                              SubSeq(timestamp.digits, 1, Len(timestamp.digits) - 3)),
              tzinfo |-> tz])

fromtimestamp(timestamp, tz) ==
    IF timestamp.neg /\ ~DigitsLeq(timestamp.digits, EarliestEpoch)
    THEN Raised(IF Len(timestamp.digits) > 18 THEN "OverflowError" ELSE "ValueError")
    ELSE IF ~timestamp.neg /\ ~DigitsLeq(timestamp.digits, LatestEpoch)
    THEN Raised(IF DigitsLeq(timestamp.digits, LatestUtcEpoch) \/ Len(timestamp.digits) > 18
                THEN "OverflowError" ELSE "ValueError")
    ELSE Returned([kind |-> "datetime", epoch |-> timestamp, tzinfo |-> tz])

\* ------------------------------------------------------- createDataSet

\* what createDataSet raises, or the list it returns
Failed(e) == [exc |-> e, data |-> <<>>]

\* lines 91-94 as they would be without the call of float()
Kept(item, number) == item

Coerced(item, number) == IF number.exc = "none" THEN number ELSE item

Looked(item) == IF item.exc # "none" THEN item ELSE Coerced(item, float(item.val))

\* float(payload['value']), falling back to payload['value'] (lines 91-94): the
\* bare except catches whatever float() or the lookup raises, and the handler
\* looks the key up again, so that a missing key raises from the handler
ValueOf(payload) == Looked(GetItem(payload, Keys.value))

\* lines 95-104, reached when neither line 89 nor lines 91-94 raised
DataOf(messurement, time, value) ==
    IF time.exc # "none" THEN Failed(time.exc)
    ELSE IF value.exc # "none" THEN Failed(value.exc)
    ELSE [exc |-> "none",
          data |-> << [measurement |-> messurement,
                       time |-> time.val,
                       fields |-> [value |-> value.val]] >>]

\* lines 89-104, from int(payload['timestamp']) on
DataOfTimestamp(messurement, payload, timestamp) ==
    IF timestamp.exc # "none" THEN Failed(timestamp.exc)
    ELSE DataOf(messurement, fromtimestamp(timestamp.val, timezone), ValueOf(payload))

\* lines 88-104, from payload['timestamp'] on
DataOfItem(messurement, payload, item) ==
    IF item.exc # "none" THEN Failed(item.exc)
    ELSE DataOfTimestamp(messurement, payload, int(item.val))

\* lines 87-104, from the return or the exception of json.loads on
DataOfPayload(messurement, payload) ==
    IF payload.exc # "none" THEN Failed(payload.exc)
    ELSE DataOfItem(messurement, payload.val, GetItem(payload.val, Keys.timestamp))

\* line 86 on, from the return or the exception of msg.payload.decode on
DataOfText(messurement, text) ==
    IF text.exc # "none" THEN Failed(text.exc)
    ELSE DataOfPayload(messurement, json_loads(text.text))

\* Mqtt2InfluxDb.createDataSet(msg): the list of one point it returns, or the
\* exception it raises
createDataSet(msg) == DataOfText(msg.topic, decode(msg.payload))

\* ------------------------------------------------------------ the inputs

\* the messages one run delivers, and the CONNACKs it sees, at most
MaxMessages == 2

MaxConnAcks == 2

Topics == {"sensors/temp1", "sensors/door1"}

\* [mqtt] topic of the configuration file: a filter or a single topic
ConfigTopics == {"sensors/#", "sensors/temp1"}

\* [influxdb] database of the configuration file
ConfigDatabase == "sensors"

\* the databases an InfluxDB instance may hold before the bridge starts
DatabaseNames == {"sensors", "telegraf"}

\* the bytes of the payload {"timestamp": T, "value": V}, T and V being JSON text
Payload(T, V) == Text("{\"timestamp\": " \o T \o ", \"value\": " \o V \o "}")

\* the JSON text of a string without quotes, backslashes or control characters
Quoted(str) == "\"" \o str \o "\""

\* timestamps, each with its sign and its digits: the epoch, a second of 2023,
\* one of 1969 - and a second of 2023 counted in milliseconds, which as a count
\* of seconds lies in the year 55840
Epoch2023 ==
    [str |-> "1700000000", neg |-> FALSE, digits |-> <<1, 7, 0, 0, 0, 0, 0, 0, 0, 0>>]

Epochs ==
    { [str |-> "0",      neg |-> FALSE, digits |-> <<0>>],
      Epoch2023,
      [str |-> "-86400", neg |-> TRUE,  digits |-> <<8, 6, 4, 0, 0>>] }

LateEpoch ==
    [str |-> "1700000000000", neg |-> FALSE,
     digits |-> <<1, 7, 0, 0, 0, 0, 0, 0, 0, 0, 0, 0, 0>>]

\* strings that float() parses, each with the sign, the mantissa and the
\* exponent of ten of the number it denotes
NumericStrings ==
    { [str |-> "21.5",  neg |-> FALSE, digits |-> <<2, 1, 5>>, exp |-> -1],
      [str |-> "-3e2",  neg |-> TRUE,  digits |-> <<3>>,       exp |-> 2],
      [str |-> " 7 ",   neg |-> FALSE, digits |-> <<7>>,       exp |-> 0],
      [str |-> "1_000", neg |-> FALSE, digits |-> <<1>>,       exp |-> 3],
      [str |-> ".50",   neg |-> FALSE, digits |-> <<5>>,       exp |-> -1] }

\* strings that float() does not parse
OtherStrings == {"on", "open", "", "1,5", "0x10", "21.5C"}

\* JSON values that are no strings, each with the Python object json.loads
\* gives for it and, where float() takes that object, the float it gives
One == [kind |-> "int", neg |-> FALSE, digits |-> <<1>>]

Float(neg, digits, exp) ==
    [kind |-> "float", cls |-> "finite", neg |-> neg, digits |-> digits, exp |-> exp]

OtherValues ==
    { [json |-> "3",          object |-> [kind |-> "int", neg |-> FALSE, digits |-> <<3>>],
       parsed |-> <<Float(FALSE, <<3>>, 0)>>],
      [json |-> "2.50",       object |-> Float(FALSE, <<2, 5>>, -1),
       parsed |-> <<Float(FALSE, <<2, 5>>, -1)>>],
      [json |-> "true",       object |-> [kind |-> "bool", b |-> TRUE],
       parsed |-> <<Float(FALSE, <<1>>, 0)>>],
      [json |-> "false",      object |-> [kind |-> "bool", b |-> FALSE],
       parsed |-> <<Float(FALSE, <<0>>, 0)>>],
      [json |-> "null",       object |-> [kind |-> "None"], parsed |-> <<>>],
      [json |-> "[]",         object |-> [kind |-> "list", items |-> <<>>], parsed |-> <<>>],
      [json |-> "[1]",        object |-> [kind |-> "list", items |-> <<One>>],
       parsed |-> <<>>],
      [json |-> "{}",         object |-> [kind |-> "dict", items |-> <<>>], parsed |-> <<>>],
      [json |-> "{\"a\": 1}", object |-> [kind |-> "dict",
                                          items |-> <<[k |-> <<97>>, v |-> One]>>],
       parsed |-> <<>>] }

\* payloads from which createDataSet builds a point, each with its timestamp
\* and the value of the point's field
Goods ==
    { [payload |-> Payload(Epoch2023.str, Quoted("21.5")), timestamp |-> Epoch2023,
       value |-> Float(FALSE, <<2, 1, 5>>, -1)],
      [payload |-> Payload(Epoch2023.str, Quoted("open")), timestamp |-> Epoch2023,
       value |-> [kind |-> "str", s |-> Text("open")]] }

GoodPayloads == {G.payload : G \in Goods}

\* a payload whose timestamp counts milliseconds
LatePayloads == {Payload(LateEpoch.str, Quoted("21.5"))}

\* payloads that are text but no JSON, JSON without one of the two keys, or
\* JSON whose timestamp int() does not take
NotJsonPayloads == {Text("temp=21.5")}

TruncatedPayloads == {Text("{\"timestamp\": 1700000000, \"value\": \"21.5\"")}

KeylessPayloads ==
    { Text("{\"value\": \"21.5\"}"),
      Text("{\"timestamp\": 1700000000}") }

NoIntPayloads == {Payload(Quoted("soon"), "1")}

NullPayloads == {Payload("null", "1")}

BadPayloads == NotJsonPayloads \cup KeylessPayloads \cup NoIntPayloads

\* payloads that are no UTF-8: a byte 0xFF inside the value, a lone
\* continuation byte
NotUtf8Payloads ==
    { Text("{\"timestamp\": 1700000000, \"value\": \"") \o <<255>> \o Text("\"}"),
      <<128>> }

ProcessPayloads == GoodPayloads \cup BadPayloads \cup LatePayloads \cup NotUtf8Payloads

ProcessMessages == [topic : Topics, payload : ProcessPayloads]

\* the payloads createDataSet is applied to on its own
TransformPayloads ==
    {Payload(T.str, Quoted(V.str)) : T \in Epochs \cup {LateEpoch}, V \in NumericStrings}
    \cup {Payload(T.str, Quoted(V)) : T \in Epochs \cup {LateEpoch}, V \in OtherStrings}
    \cup {Payload(T.str, V.json) : T \in Epochs, V \in OtherValues}
    \cup ProcessPayloads \cup TruncatedPayloads \cup NullPayloads

TransformMessages == [topic : Topics, payload : TransformPayloads]

\* ------------------------------------------------------------- the state

VARIABLES
    pc,           \* "init_mqtt", "init_influx", "loop" or "exited"
    config,       \* the configuration file read at line 33
    topic,        \* self.topic
    connects,     \* the calls of mqtt.connect so far
    databases,    \* the databases of the InfluxDB instance
    influxCalls,  \* the calls made to the InfluxDB client while initialising
    connacks,     \* the CONNACKs the loop has handled
    subscribes,   \* the calls of mqtt.subscribe: [topic, qos]
    delivered,    \* the messages handed to on_message, in order
    writes,       \* the calls of influx.write_points: [at, points, ok]
    log,          \* the calls of logging.error: [at, text]
    disconnects,  \* the calls of mqtt.disconnect so far
    why,          \* what ended the process
    exitStatus,   \* <<>> while the process runs, <<status>> once it has exited
    input,        \* the message createDataSet is applied to on its own
    output        \* <<>>, or <<what createDataSet(input) returned or raised>>

vars == <<pc, config, topic, connects, databases, influxCalls, connacks, subscribes,
          delivered, writes, log, disconnects, why, exitStatus, input, output>>

process == <<pc, config, topic, connects, databases, influxCalls, connacks, subscribes,
             delivered, writes, log, disconnects, why, exitStatus>>

NoMessage == [topic |-> "", payload |-> <<>>]

Init ==
    /\ pc = "init_mqtt"
    /\ config \in [topic : ConfigTopics, database : {ConfigDatabase}]
    /\ topic = ""
    /\ connects = 0
    /\ databases \in SUBSET DatabaseNames
    /\ influxCalls = <<>>
    /\ connacks = 0
    /\ subscribes = <<>>
    /\ delivered = <<>>
    /\ writes = <<>>
    /\ log = <<>>
    /\ disconnects = 0
    /\ why = ""
    /\ exitStatus = <<>>
    /\ input = NoMessage
    /\ output = <<>>

\* --------------------------------------------------------- initialisation

\* the status the process exits with after quit(): quit() raises
\* SystemExit(None), which nothing catches, and that is a status of 0
QuitStatus == 0

\* the status of a process that an uncaught exception ends (the traceback)
TracebackStatus == 1

\* the status of a script that runs to its last line (line 125)
EndStatus == 0

\* logging.error(...) followed by quit(), lines 53-54 and 67-68
quit(text) ==
    /\ log' = Append(log, [at |-> 0, text |-> text])
    /\ pc' = "exited"
    /\ why' = "quit"
    /\ exitStatus' = <<QuitStatus>>

\* Mqtt2InfluxDb.__initMqttClient(config); connected: whether mqtt.connect returned
initMqttClient(connected) ==
    /\ pc = "init_mqtt"
    /\ topic' = config.topic
    /\ connects' = connects + 1
    /\ IF connected
       THEN pc' = "init_influx" /\ UNCHANGED <<log, why, exitStatus>>
       ELSE quit("Failed to connect to MQTT Broker")
    /\ UNCHANGED <<config, databases, influxCalls, connacks, subscribes, delivered,
                   writes, disconnects, input, output>>

\* the calls of the InfluxDB client while initialising: what was called, the
\* names it returned or was given, and whether it returned
Listing(returned) ==
    [call |-> "get_list_database", names |-> IF returned THEN databases ELSE {},
     ok |-> returned]

Creating(database, returned) ==
    [call |-> "create_database", names |-> {database}, ok |-> returned]

\* line 62 as it would be if the listing were not looked at
dbNeverExists(database) == FALSE

\* line 62: whether get_list_database names the database
dbAlreadyExists(database) == database \in databases

\* Mqtt2InfluxDb.__initInfluxDbClient(config); listed, created: whether
\* get_list_database and create_database return (TRUE) or raise.  After it
\* __init__ returns and __main__ enters the loop (lines 119-122)
initInfluxDbClient(listed, created) ==
    LET database == config.database
    IN  /\ pc = "init_influx"
        /\ IF ~listed
           THEN /\ influxCalls' = Append(influxCalls, Listing(FALSE))
                /\ quit("Failed to connect to InfluxDB instance")
                /\ UNCHANGED databases
           ELSE IF dbAlreadyExists(database)
           THEN /\ influxCalls' = Append(influxCalls, Listing(TRUE))
                /\ pc' = "loop"
                /\ UNCHANGED <<databases, log, why, exitStatus>>
           ELSE IF created
           THEN /\ influxCalls' = influxCalls \o <<Listing(TRUE), Creating(database, TRUE)>>
                /\ databases' = databases \cup {database}
                /\ pc' = "loop"
                /\ UNCHANGED <<log, why, exitStatus>>
           ELSE /\ influxCalls' = influxCalls \o <<Listing(TRUE), Creating(database, FALSE)>>
                /\ quit("Failed to connect to InfluxDB instance")
                /\ UNCHANGED databases
        /\ UNCHANGED <<config, topic, connects, connacks, subscribes, delivered, writes,
                       disconnects, input, output>>

\* ----------------------------------------------------------- the callbacks

\* the quality of service of the subscription, line 71
Qos == 2

\* __onConnect as it would be with the quality of service left to its default
onConnectQos0 == Append(subscribes, [topic |-> topic, qos |-> 0])

\* Mqtt2InfluxDb.__onConnect: the subscribe calls after it
onConnect == Append(subscribes, [topic |-> topic, qos |-> Qos])

\* what a run of on_message comes to: the exception that leaves it ("none"
\* when none does), and the write calls and the error log after it
Outcome(exc, written, logged) == [exc |-> exc, writes |-> written, log |-> logged]

\* the try statement as it would be without its outer except clause
TriedNoOuter(data, at, written) ==
    IF data.exc # "none"
    THEN Outcome(data.exc, writes, log)
    ELSE IF written
    THEN Outcome("none", Append(writes, [at |-> at, points |-> data.data, ok |-> TRUE]), log)
    ELSE Outcome("none", Append(writes, [at |-> at, points |-> data.data, ok |-> FALSE]),
                 Append(log, [at |-> at, text |-> "Failed sending data to influxdb"]))

\* the try statement as it would be with the write outside of it
TriedRaising(data, at, written) ==
    IF data.exc # "none"
    THEN Outcome("none", writes, Append(log, [at |-> at, text |-> "Decoding of JSON failed"]))
    ELSE IF written
    THEN Outcome("none", Append(writes, [at |-> at, points |-> data.data, ok |-> TRUE]), log)
    ELSE Outcome("InfluxDBClientError",
                 Append(writes, [at |-> at, points |-> data.data, ok |-> FALSE]), log)

\* the try statement as it would be if the write followed it, whether or not
\* createDataSet had returned
TriedAlways(data, at, written) ==
    IF data.exc # "none"
    THEN Outcome("none", Append(writes, [at |-> at, points |-> <<>>, ok |-> written]),
                 Append(log, [at |-> at, text |-> "Decoding of JSON failed"]))
    ELSE IF written
    THEN Outcome("none", Append(writes, [at |-> at, points |-> data.data, ok |-> TRUE]), log)
    ELSE Outcome("none", Append(writes, [at |-> at, points |-> data.data, ok |-> FALSE]),
                 Append(log, [at |-> at, text |-> "Failed sending data to influxdb"]))

\* the try statement of lines 75-83, data being what createDataSet(msg)
\* returned or raised and at the number of the message
Tried(data, at, written) ==
    IF data.exc # "none"
    THEN Outcome("none", writes, Append(log, [at |-> at, text |-> "Decoding of JSON failed"]))
    ELSE IF Len(data.data) = 0
    THEN Outcome("none", writes, log)
    ELSE IF written
    THEN Outcome("none", Append(writes, [at |-> at, points |-> data.data, ok |-> TRUE]), log)
    ELSE Outcome("none", Append(writes, [at |-> at, points |-> data.data, ok |-> FALSE]),
                 Append(log, [at |-> at, text |-> "Failed sending data to influxdb"]))

\* line 74, which decodes the payload before the try statement is entered
Debugged(message, shown, written) ==
    IF shown.exc # "none" THEN Outcome(shown.exc, writes, log)
    ELSE Tried(createDataSet(message), Len(delivered) + 1, written)

\* Mqtt2InfluxDb.__onMessage(client, userdata, msg); written: whether
\* influx.write_points returns (TRUE) or raises
onMessage(message, written) == Debugged(message, decode(message.payload), written)

\* ---------------------------------------------------------------- the loop

\* the broker sends what the subscription's filter matches: the topic itself,
\* or with a filter ending in /# every topic below it
TopicMatches(filter, name) ==
    \/ filter = name
    \/ /\ Len(filter) >= 2
       /\ SubSeq(filter, Len(filter) - 1, Len(filter)) = "/#"
       /\ Len(name) >= Len(filter) - 1
       /\ SubSeq(name, 1, Len(filter) - 1) = SubSeq(filter, 1, Len(filter) - 1)

\* loop_forever handles a CONNACK (the first, or one after a reconnect)
ConnAck ==
    /\ pc = "loop"
    /\ connacks < MaxConnAcks
    /\ connacks' = connacks + 1
    /\ subscribes' = onConnect
    /\ UNCHANGED <<pc, config, topic, connects, databases, influxCalls, delivered, writes,
                   log, disconnects, why, exitStatus, input, output>>

\* loop_forever handles a PUBLISH: on_message runs, and an exception that
\* leaves it leaves loop_forever and __main__ too, whose try statement catches
\* KeyboardInterrupt alone (lines 120-125).  r: what on_message comes to
Handled(message, r) ==
    /\ delivered' = Append(delivered, message)
    /\ writes' = r.writes
    /\ log' = r.log
    /\ IF r.exc = "none"
       THEN UNCHANGED <<pc, why, exitStatus>>
       ELSE pc' = "exited" /\ why' = r.exc /\ exitStatus' = <<TracebackStatus>>
    /\ UNCHANGED <<config, topic, connects, databases, influxCalls, connacks,
                   subscribes, disconnects, input, output>>

Publish(message, written) ==
    /\ pc = "loop"
    /\ Len(delivered) < MaxMessages
    /\ \E s \in 1..Len(subscribes) : TopicMatches(subscribes[s].topic, message.topic)
    /\ Handled(message, onMessage(message, written))

\* KeyboardInterrupt in loop_forever: __main__ disconnects (lines 123-125)
KeyboardInterrupt ==
    /\ pc = "loop"
    /\ disconnects' = disconnects + 1
    /\ pc' = "exited"
    /\ why' = "KeyboardInterrupt"
    /\ exitStatus' = <<EndStatus>>
    /\ UNCHANGED <<config, topic, connects, databases, influxCalls, connacks, subscribes,
                   delivered, writes, log, input, output>>

Next ==
    \/ \E connected \in BOOLEAN : initMqttClient(connected)
    \/ \E listed \in BOOLEAN, created \in BOOLEAN : initInfluxDbClient(listed, created)
    \/ ConnAck
    \/ \E message \in ProcessMessages, written \in BOOLEAN : Publish(message, written)
    \/ KeyboardInterrupt

Spec == Init /\ [][Next]_vars

\* ------------------------------------------------- createDataSet on its own

InitTransform ==
    /\ pc = "init_mqtt"
    /\ config \in [topic : {"sensors/#"}, database : {ConfigDatabase}]
    /\ topic = ""
    /\ connects = 0
    /\ databases = {}
    /\ influxCalls = <<>>
    /\ connacks = 0
    /\ subscribes = <<>>
    /\ delivered = <<>>
    /\ writes = <<>>
    /\ log = <<>>
    /\ disconnects = 0
    /\ why = ""
    /\ exitStatus = <<>>
    /\ input \in TransformMessages
    /\ output = <<>>

Transform ==
    /\ output = <<>>
    /\ output' = <<createDataSet(input)>>
    /\ UNCHANGED <<process, input>>

SpecTransform == InitTransform /\ [][Transform]_vars

\* ------------------------------------------------------------- the claims

\* the write calls and the error logs made while message i was handled
WritesAt(i) == {w \in 1..Len(writes) : writes[w].at = i}

ErrorsAt(i) == {e \in 1..Len(log) : log[e].at = i}

\* an exception left on_message while message i was handled, and ended the process
RaisedAt(i) ==
    /\ Len(delivered) = i
    /\ pc = "exited"
    /\ why \notin {"KeyboardInterrupt", "quit"}

\* message i was handled as one is whose payload is good: one write of one
\* point named after its topic, and no exception
WrittenAt(i) ==
    /\ Cardinality(WritesAt(i)) = 1
    /\ \A w \in WritesAt(i) : /\ Len(writes[w].points) = 1
                              /\ writes[w].points[1].measurement = delivered[i].topic
    /\ ~RaisedAt(i)

\* C1: a message whose payload is text but no JSON, JSON without the timestamp
\* or the value key, or JSON whose timestamp is no integer, gives no point and
\* no write, an error is logged, no exception leaves on_message, and a message
\* after it is handled as ever
C1_BadPayloadLoggedAndSkipped ==
    \A i \in 1..Len(delivered) :
        delivered[i].payload \in BadPayloads =>
            /\ WritesAt(i) = {}
            /\ Cardinality(ErrorsAt(i)) = 1
            /\ ~RaisedAt(i)
            /\ Len(delivered) = i => pc = "loop" \/ why = "KeyboardInterrupt"
            /\ (i < Len(delivered) /\ delivered[i + 1].payload \in GoodPayloads)
                   => WrittenAt(i + 1)

C1_Witness ==
    /\ Len(delivered) = 2
    /\ delivered[1].payload \in NoIntPayloads
    /\ delivered[2].payload \in GoodPayloads
    /\ ErrorsAt(1) # {}
    /\ WritesAt(1) = {}
    /\ Len(writes) = 1
    /\ writes[1].ok

\* C2: a message whose payload is no UTF-8 is a logged error and no more: no
\* exception leaves on_message, nothing is written, and the loop goes on
C2_InvalidUtf8LoggedAndSkipped ==
    \A i \in 1..Len(delivered) :
        delivered[i].payload \in NotUtf8Payloads =>
            /\ ~RaisedAt(i)
            /\ WritesAt(i) = {}
            /\ ErrorsAt(i) # {}
            /\ Len(delivered) = i => pc = "loop" \/ why = "KeyboardInterrupt"

\* C3: a write that raises is logged, is not tried again, lets no exception
\* leave on_message, and the next message of the same topic is written as ever
C3_FailedWriteLoggedNotRetried ==
    \A w \in 1..Len(writes) :
        ~writes[w].ok =>
            /\ \E e \in ErrorsAt(writes[w].at) :
                   log[e].text = "Failed sending data to influxdb"
            /\ WritesAt(writes[w].at) = {w}
            /\ ~RaisedAt(writes[w].at)
            /\ Len(delivered) = writes[w].at => pc = "loop" \/ why = "KeyboardInterrupt"
            /\ \A j \in 1..Len(delivered) :
                   ( /\ j = writes[w].at + 1
                     /\ delivered[j].topic = delivered[writes[w].at].topic
                     /\ delivered[j].payload \in GoodPayloads ) => WrittenAt(j)

C3_Witness ==
    /\ Len(writes) = 2
    /\ ~writes[1].ok
    /\ writes[2].ok
    /\ writes[2].at = 2
    /\ delivered[1].topic = delivered[2].topic
    /\ Len(log) = 1

\* the instant of the timestamp T, as the time of a point
Instant(T) ==
    [kind |-> "datetime",
     epoch |-> [kind |-> "int", neg |-> T.neg, digits |-> T.digits],
     tzinfo |-> "Europe/Berlin"]

\* the write calls for message i: one call with the one point of the message
\* where createDataSet returns for its payload, none where it raises
WrittenAs(i) ==
    IF delivered[i].payload \in GoodPayloads
    THEN /\ Cardinality(WritesAt(i)) = 1
         /\ \A w \in WritesAt(i), G \in Goods :
                delivered[i].payload = G.payload
                    => writes[w].points =
                           << [measurement |-> delivered[i].topic,
                               time |-> Instant(G.timestamp),
                               fields |-> [value |-> G.value]] >>
    ELSE WritesAt(i) = {}

\* C4: write_points is called once for each message createDataSet returned for
\* and never for one it raised for; each call carries the one point of the
\* message then handled; the calls are in the order of the messages
C4_OneWritePerTransformedMessage ==
    /\ \A i \in 1..Len(delivered) : WrittenAs(i)
    /\ \A w \in 1..Len(writes) : writes[w].at \in 1..Len(delivered)
    /\ \A v \in 1..Len(writes), w \in 1..Len(writes) :
           v < w => writes[v].at < writes[w].at

C4_Witness ==
    /\ Len(delivered) = 2
    /\ delivered[1].payload \in BadPayloads
    /\ delivered[2].payload \in GoodPayloads
    /\ Len(writes) = 1
    /\ writes[1].at = 2
    /\ writes[1].points[1].measurement = "sensors/door1"

\* the point createDataSet is to give for the message at hand, for the
\* timestamp T and the value of the field
OnePoint(T, value) ==
    [exc |-> "none",
     data |-> << [measurement |-> input.topic, time |-> Instant(T),
                  fields |-> [value |-> value]] >>]

\* what createDataSet gave for the payloads whose value is a string and whose
\* timestamp is one of Ts: a float for a numeric string, the string for another
StringsGivePoints(Ts) ==
    /\ \A T \in Ts, V \in NumericStrings :
           input.payload = Payload(T.str, Quoted(V.str))
               => output[1] = OnePoint(T, Float(V.neg, V.digits, V.exp))
    /\ \A T \in Ts, V \in OtherStrings :
           input.payload = Payload(T.str, Quoted(V))
               => output[1] = OnePoint(T, [kind |-> "str", s |-> Text(V)])

\* C5 as stated: for every integer timestamp T and every string V, createDataSet
\* returns one point, named after the topic of the message, at the instant T,
\* whose value is float(V) where V is numeric and V where it is not
C5_AnyIntegerTimestamp ==
    output # <<>> => StringsGivePoints(Epochs \cup {LateEpoch})

\* C5: for every integer timestamp T that is a second of the years 1 to 9999
\* and every string V, createDataSet returns one point, named after the topic
\* of the message, at the instant T, whose value is float(V) where V is numeric
\* and V where it is not
C5_TimestampOfADatetime ==
    output # <<>> => StringsGivePoints(Epochs)

C5_Witness ==
    /\ output # <<>>
    /\ input.topic = "sensors/door1"
    /\ input.payload = Payload("-86400", Quoted("1_000"))
    /\ output[1].exc = "none"
    /\ output[1].data[1].fields.value.kind = "float"

\* the values of the field in what createDataSet returned
Values == {output[1].data[p].fields.value : p \in 1..Len(output[1].data)}

Lists == {c \in 1..Len(influxCalls) : influxCalls[c].call = "get_list_database"}

Creates == {c \in 1..Len(influxCalls) : influxCalls[c].call = "create_database"}

\* C7: when the broker or the database cannot be reached while initialising,
\* an error is logged and the process ends at once with a status other than 0,
\* after one connection attempt, without a later step of the initialisation
\* and without entering the loop
C7_InitFailureExitsNonZero ==
    why = "quit" =>
        /\ Len(log) = 1
        /\ Len(exitStatus) = 1
        /\ exitStatus[1] # 0
        /\ connects = 1
        /\ Cardinality(Lists) <= 1
        /\ (log[1].text = "Failed to connect to MQTT Broker" => influxCalls = <<>>)
        /\ connacks = 0
        /\ delivered = <<>>

\* C8: once the loop runs, mqtt.disconnect is called if and only if a
\* KeyboardInterrupt arrives, once, and the process then exits with status 0;
\* nothing that goes wrong with a message ends the loop
C8_OnlyInterruptEndsLoop ==
    /\ disconnects > 0 <=> why = "KeyboardInterrupt"
    /\ why = "KeyboardInterrupt" => disconnects = 1 /\ exitStatus = <<0>>
    /\ \A i \in 1..Len(delivered) : ~RaisedAt(i)
    /\ (pc = "exited" /\ why # "quit") => why = "KeyboardInterrupt"

\* C9: each CONNACK brings one subscribe call, for the configured topic with a
\* quality of service of 2; there is no other subscribe call, and none before
\* the first CONNACK
C9_OneSubscribePerConnAck ==
    /\ Len(subscribes) = connacks
    /\ \A s \in 1..Len(subscribes) : subscribes[s] = [topic |-> config.topic, qos |-> 2]

C9_Witness ==
    /\ connacks = 2
    /\ Len(subscribes) = 2
    /\ Len(delivered) = 1

\* C10: create_database is called exactly when get_list_database returned
\* without the configured database among its names, for that database and at
\* most once; after a successful initialisation the database exists, and the
\* ones that existed still do
C10_CreateExactlyWhenAbsent ==
    /\ Cardinality(Creates) <= 1
    /\ Cardinality(Lists) <= 1
    /\ \A c \in Creates :
           /\ influxCalls[c].names = {config.database}
           /\ c - 1 \in Lists
           /\ influxCalls[c - 1].ok
           /\ config.database \notin influxCalls[c - 1].names
    /\ \A l \in Lists :
           (influxCalls[l].ok /\ config.database \notin influxCalls[l].names)
               => l + 1 \in Creates
    /\ \A l \in Lists : influxCalls[l].names \subseteq databases
    /\ pc = "loop" => /\ config.database \in databases
                      /\ Lists # {}

C10_Witness ==
    /\ pc = "loop"
    /\ Creates # {}
    /\ databases = {"sensors", "telegraf"}

====
